---------------------------- MODULE Spec2Model ----------------------------
(***************************************************************************)
(* A model of newsscraperV2.py: the link extractor (scrape_articles,       *)
(* clean_url), the content extractor (fetch_article_content), the          *)
(* analyzers (analyze_sentiment, analyze_seo) and the category loop of     *)
(* main.                                                                   *)
(*                                                                         *)
(* Python strings are sequences of one-character strings, so that          *)
(* startswith, strip, split, lower and slicing are computed character by   *)
(* character.  Python's None is the value None below, which is no string:  *)
(* its only element is not a single character.                             *)
(*                                                                         *)
(* Percentages (keyword density) are integers in hundredths of a percent:  *)
(* 60.0 is 6000.  Sentiment polarity is an integer in thousandths.         *)
(***************************************************************************)
EXTENDS Integers, Sequences, FiniteSets, TLC

VARIABLES
    pc,        \* position of main: "scrape", "article", "done", "raised", or "idle"
    catIdx,    \* index in Categories of the category the loop of main is at
    articles,  \* the list scrape_articles returned for the current category
    artIdx,    \* index in articles of the next (title, link) pair
    data,      \* the list of records of main
    gets,      \* every requests.get issued so far, in order: [kind, url]
    scored,    \* every text handed to TextBlob so far, in order
    returned,  \* the lists scrape_articles returned so far, one per call
    textblob,  \* TextBlob's polarity of each text main can hand to it
    call,      \* a single call of one function: its name and arguments
    ret        \* the result of that call, once made

vars == <<pc, catIdx, articles, artIdx, data, gets, scored, returned, textblob, call, ret>>

-----------------------------------------------------------------------------
(* Bounds of the model. *)

\* Longest text, in words, handed to analyze_seo by the enumeration.
MaxWords == 6

\* Most elements a listing page has that match the title rule, and the link rule.
MaxTitleElems == 11
MaxLinkElems == 11

\* Most title elements of an enumerated listing page whose text is blank.
MaxBlank == 1

-----------------------------------------------------------------------------
(* Python values and string methods. *)

None == <<"None">>

\* Python truthiness of an optional string: None and "" are falsy.
Falsy(x) == x = None \/ x = <<>>

Whitespace == {" ", "\t", "\n"}

UpperAlphabet == <<"A","B","C","D","E","F","G","H","I","J","K","L","M","N","O","P","Q","R","S","T","U","V","W","X","Y","Z">>

LowerAlphabet == <<"a","b","c","d","e","f","g","h","i","j","k","l","m","n","o","p","q","r","s","t","u","v","w","x","y","z">>

\* str.lower, one character.
LowerChar(c) ==
    IF \E i \in 1..Len(UpperAlphabet) : UpperAlphabet[i] = c
    THEN LowerAlphabet[CHOOSE i \in 1..Len(UpperAlphabet) : UpperAlphabet[i] = c]
    ELSE c

\* str.lower
lower(s) == [i \in 1..Len(s) |-> LowerChar(s[i])]

\* str.startswith
startswith(s, prefix) ==
    /\ Len(s) >= Len(prefix)
    /\ \A i \in 1..Len(prefix) : s[i] = prefix[i]

\* Python slice s[:n]
Take(s, n) == IF Len(s) <= n THEN s ELSE SubSeq(s, 1, n)

\* str.strip(chars): drop leading and trailing characters that are in chars.
strip(s, chars) ==
    LET keep == {i \in 1..Len(s) : s[i] \notin chars}
    IN  IF keep = {} THEN <<>>
        ELSE LET lo == CHOOSE i \in keep : \A j \in keep : i <= j
                 hi == CHOOSE i \in keep : \A j \in keep : j <= i
             IN  SubSeq(s, lo, hi)

\* str.split(): the maximal runs of non-whitespace characters, in order.
split(s) ==
    LET starts == {i \in 1..Len(s) :
                      s[i] \notin Whitespace /\ (i = 1 \/ s[i - 1] \in Whitespace)}
        start(k) == CHOOSE i \in starts : Cardinality({j \in starts : j <= i}) = k
        stop(i) == CHOOSE j \in i..Len(s) :
                      /\ \A x \in i..j : s[x] \notin Whitespace
                      /\ j = Len(s) \/ s[j + 1] \in Whitespace
    IN  [k \in 1..Cardinality(starts) |-> SubSeq(s, start(k), stop(start(k)))]

\* sep.join(parts)
RECURSIVE join(_, _)
join(sep, parts) ==
    IF parts = <<>> THEN <<>>
    ELSE IF Len(parts) = 1 THEN parts[1]
    ELSE parts[1] \o sep \o join(sep, Tail(parts))

-----------------------------------------------------------------------------
(* The responses of the network and of the HTML parser.                     *)
(*                                                                           *)
(* A response is what one requests.get followed by the parsing of its body  *)
(* does: [kind |-> "ok", page |-> ...] or [kind |-> "raise", exc |-> the     *)
(* exception's class, msg |-> str(e)].                                       *)

\* requests.exceptions: the classes derived from RequestException.
RequestExceptions == {"Timeout", "ConnectionError", "HTTPError"}

\* An exception raised by the parsing or the traversal of the markup; it is
\* an Exception and no RequestException.
ParseExceptions == {"RecursionError"}

Http500Msg == <<"5","0","0"," ","S","e","r","v","e","r"," ","E","r","r","o","r",":"," ","I","n","t","e","r","n","a","l"," ","S","e","r","v","e","r"," ","E","r","r","o","r"," ","f","o","r"," ","u","r","l",":"," ","h","t","t","p","s",":","/","/","a","b","c","n","e","w","s",".","g","o",".","c","o","m","/","s","1">>

ConnMsg == <<"C","o","n","n","e","c","t","i","o","n"," ","r","e","f","u","s","e","d">>

TimeoutMsg == <<"R","e","a","d"," ","t","i","m","e","d"," ","o","u","t">>

ParseMsg == <<"m","a","x","i","m","u","m"," ","r","e","c","u","r","s","i","o","n"," ","d","e","p","t","h"," ","e","x","c","e","e","d","e","d">>

Raise(exc, msg) == [kind |-> "raise", exc |-> exc, msg |-> msg]

FailedResponses ==
    { Raise("Timeout", TimeoutMsg), Raise("ConnectionError", ConnMsg),
      Raise("HTTPError", Http500Msg), Raise("RecursionError", ParseMsg) }

Ok(page) == [kind |-> "ok", page |-> page]

\* A requests.get, as recorded in gets.
Get(kind, url) == [kind |-> kind, url |-> url]

-----------------------------------------------------------------------------
(* clean_url and urllib.parse *)

HttpPrefix == <<"h","t","t","p">>

Letters == {UpperAlphabet[i] : i \in 1..26} \cup {LowerAlphabet[i] : i \in 1..26}

SchemeChars == Letters \cup {"0","1","2","3","4","5","6","7","8","9","+","-","."}

\* The index of the first occurrence of character c in s, or 0 (str.find + 1).
Find(s, c) ==
    IF \E i \in 1..Len(s) : s[i] = c
    THEN CHOOSE i \in 1..Len(s) : s[i] = c /\ \A j \in 1..(i - 1) : s[j] # c
    ELSE 0

\* Python slice s[i:] with i counted from 1.
Drop(s, i) == IF i > Len(s) THEN <<>> ELSE SubSeq(s, i, Len(s))

\* urlsplit's test for a scheme: a colon after a letter and scheme characters only.
HasScheme(url) ==
    LET i == Find(url, ":")
    IN  /\ i > 1
        /\ url[1] \in Letters
        /\ \A k \in 1..(i - 1) : url[k] \in SchemeChars

SchemeOf(url) == IF HasScheme(url) THEN lower(SubSeq(url, 1, Find(url, ":") - 1)) ELSE <<>>

\* What follows "scheme:" (the whole url when it has no scheme).
AfterScheme(url) == IF HasScheme(url) THEN Drop(url, Find(url, ":") + 1) ELSE url

\* urlparse(url).netloc: what follows "//" up to the next "/", "?" or "#".
NetlocOf(url) ==
    LET rest == AfterScheme(url)
    IN  IF startswith(rest, <<"/","/">>)
        THEN LET body == Drop(rest, 3)
                 stops == {i \in 1..Len(body) : body[i] \in {"/", "?", "#"}}
             IN  IF stops = {} THEN body
                 ELSE SubSeq(body, 1, (CHOOSE i \in stops : \A j \in stops : i <= j) - 1)
        ELSE <<>>

\* f"{parsed_url.scheme}://{parsed_url.netloc}"
base_url_of(url) == SchemeOf(url) \o <<":","/","/">> \o NetlocOf(url)

\* urljoin(base, url) for a base of the form scheme://netloc (an empty path,
\* as main passes it) and a url without "." or ".." segments and without
\* whitespace.
urljoin(base, url) ==
    IF Falsy(base) THEN url
    ELSE IF Falsy(url) THEN base
    ELSE LET bscheme == SchemeOf(base)
             scheme  == IF HasScheme(url) THEN SchemeOf(url) ELSE bscheme
             rest    == AfterScheme(url)
         IN  IF scheme # bscheme THEN url
             ELSE IF startswith(rest, <<"/","/">>) THEN scheme \o <<":">> \o rest
             ELSE IF rest = <<>> THEN base
             ELSE IF rest[1] = "/" THEN base \o rest
             ELSE IF rest[1] \in {"?", "#"} THEN base \o rest
             ELSE base \o <<"/">> \o rest

clean_url(base_url, link) ==
    IF Falsy(link) THEN None
    ELSE IF startswith(link, HttpPrefix) THEN link
    ELSE urljoin(base_url, link)

-----------------------------------------------------------------------------
(* scrape_articles *)

\* The truncation [:10] of the titles and of the links.
MaxArticles == 10

\* An element of the parsed page: its text nodes in document order and its
\* href attribute (None when it has none).
Elem(strings, href) == [strings |-> strings, href |-> href]

\* elem.get_text(strip=True): each text node stripped of whitespace, the empty
\* ones dropped, the rest concatenated.
RECURSIVE get_text_strip(_)
get_text_strip(strings) ==
    IF strings = <<>> THEN <<>>
    ELSE strip(Head(strings), Whitespace) \o get_text_strip(Tail(strings))

\* soup.select(selector): the page maps each selector to the elements it
\* matches, in document order.
select(page, selector) == page[selector]

\* zip(titles, links) without the filter "if title".
zip_untitled(titles, links) ==
    LET n == IF Len(titles) < Len(links) THEN Len(titles) ELSE Len(links)
    IN  [i \in 1..n |-> <<titles[i], links[i]>>]

\* zip(titles, links) followed by the filter "if title".
zip_titled(titles, links) ==
    LET n == IF Len(titles) < Len(links) THEN Len(titles) ELSE Len(links)
        IsTitled(pair) == ~Falsy(pair[1])
    IN  SelectSeq([i \in 1..n |-> <<titles[i], links[i]>>], IsTitled)

\* The links left as they are, without the padding.
pad_links_not(titles, links) == links

\* links.extend([None] * (len(titles) - len(links))) when there are fewer links.
pad_links(titles, links) ==
    IF Len(links) < Len(titles)
    THEN links \o [i \in 1..(Len(titles) - Len(links)) |-> None]
    ELSE links

\* The result of a call: raised tells whether an exception left the function,
\* value is what it returned, requests the GETs it issued.
scrape_articles(url, title_selector, link_selector, base_url, response) ==
    LET requests == <<Get("listing", url)>>
    IN  IF response.kind = "raise"
        THEN IF response.exc \in RequestExceptions
             THEN [raised |-> FALSE, value |-> <<>>, requests |-> requests]
             ELSE [raised |-> TRUE, value |-> <<>>, requests |-> requests]
        ELSE LET title_elems == select(response.page, title_selector)
                 link_elems  == select(response.page, link_selector)
                 titles == Take([i \in 1..Len(title_elems) |->
                                    get_text_strip(title_elems[i].strings)], MaxArticles)
                 links  == Take([i \in 1..Len(link_elems) |->
                                    clean_url(base_url, link_elems[i].href)], MaxArticles)
             IN  [raised |-> FALSE,
                  value |-> zip_titled(titles, pad_links(titles, links)),
                  requests |-> requests]

-----------------------------------------------------------------------------
(* The configuration: sites[0]["categories"] and the selectors of main. *)

PoliticsUrl == <<"h","t","t","p","s",":","/","/","a","b","c","n","e","w","s",".","g","o",".","c","o","m","/","P","o","l","i","t","i","c","s">>

BusinessUrl == <<"h","t","t","p","s",":","/","/","a","b","c","n","e","w","s",".","g","o",".","c","o","m","/","B","u","s","i","n","e","s","s">>

TechUrl == <<"h","t","t","p","s",":","/","/","a","b","c","n","e","w","s",".","g","o",".","c","o","m","/","T","e","c","h","n","o","l","o","g","y">>

\* The keys of site["categories"], in the order the dict gives them.
Categories == <<"Politics", "Business", "Tech">>

CategoryUrl == [Politics |-> PoliticsUrl, Business |-> BusinessUrl, Tech |-> TechUrl]

selectors ==
    [Politics |-> [title |-> "h2 a.AnchorLink", link |-> "h2 a.AnchorLink"],
     Business |-> [title |-> "h2.News__Item__Headline, h4.News__title",
                   link  |-> "h2.News__Item__Headline a, h4.News__title a"],
     Tech     |-> [title |-> "h2 a.AnchorLink", link |-> "h2 a.AnchorLink"]]

-----------------------------------------------------------------------------
(* fetch_article_content *)

NoUrlProvided == <<"N","o"," ","U","R","L"," ","p","r","o","v","i","d","e","d",".">>

TimedOutBody == <<"E","r","r","o","r",":"," ","R","e","q","u","e","s","t"," ","t","i","m","e","d"," ","o","u","t",".">>

ErrorFetchingPrefix == <<"E","r","r","o","r"," ","f","e","t","c","h","i","n","g"," ","c","o","n","t","e","n","t",":"," ">>

NoRelevantContent == <<"N","o"," ","r","e","l","e","v","a","n","t"," ","c","o","n","t","e","n","t"," ","f","o","u","n","d",".">>

NoTitle == <<"N","o"," ","T","i","t","l","e">>

NoDescription == <<"N","o"," ","D","e","s","c","r","i","p","t","i","o","n">>

NoKeywords == <<"N","o"," ","K","e","y","w","o","r","d","s">>

\* What soup.find returns when the page has no such tag.
NoTag == [found |-> FALSE]

\* A tag found by soup.find is truthy whatever it contains.
TagFound(tag) == tag.found

\* The length a paragraph's text must exceed to be kept.
MinParagraphLen == 50

\* The length of the content preview, content[:500].
PreviewLen == 500

\* The classes "except Exception" catches: every exception of the model.
Exceptions == RequestExceptions \cup ParseExceptions

IsLongParagraph(text) == Len(text) > MinParagraphLen

\* " ".join of the texts of the paragraphs whose text is longer than 50.
paragraphs_content(paragraphs) ==
    join(<<" ">>,
         SelectSeq([i \in 1..Len(paragraphs) |-> get_text_strip(paragraphs[i])],
                   IsLongParagraph))

\* tag["content"] if tag and tag.get("content") else default
meta_content(tag, default) ==
    IF TagFound(tag) /\ ~Falsy(tag.content) THEN tag.content ELSE default

\* One handler for every exception, the time-out included.
failure_value_generic(response) == <<ErrorFetchingPrefix \o response.msg, None, None, None>>

\* The two except clauses: Timeout first, then Exception with str(e).
failure_value(response) ==
    IF response.exc = "Timeout"
    THEN <<TimedOutBody, None, None, None>>
    ELSE <<ErrorFetchingPrefix \o response.msg, None, None, None>>

\* An article page: article is the first <article> with the paragraphs inside
\* it (NoTag without one), paragraphs the list of all paragraphs of the
\* document, title the <title> with its text nodes, description and keywords
\* the meta tags with their content attribute (None without the attribute).
fetch_article_content(url, response) ==
    IF Falsy(url)
    THEN [raised |-> FALSE, value |-> <<NoUrlProvided, None, None, None>>, requests |-> <<>>]
    ELSE LET requests == <<Get("article", url)>>
         IN  IF response.kind = "raise"
             THEN IF response.exc \in Exceptions
                  THEN [raised |-> FALSE, value |-> failure_value(response),
                        requests |-> requests]
                  ELSE [raised |-> TRUE, value |-> <<>>, requests |-> requests]
             ELSE LET page == response.page
                      paragraphs == IF TagFound(page.article) THEN page.article.paragraphs
                                                              ELSE page.paragraphs
                      joined == paragraphs_content(paragraphs)
                      content == IF Falsy(joined) THEN NoRelevantContent ELSE joined
                      meta_title == IF TagFound(page.title) THEN get_text_strip(page.title.strings)
                                                            ELSE NoTitle
                  IN  [raised |-> FALSE,
                       value |-> <<content, meta_title,
                                   meta_content(page.description, NoDescription),
                                   meta_content(page.keywords, NoKeywords)>>,
                       requests |-> requests]

-----------------------------------------------------------------------------
(* analyze_sentiment *)

ErrorPrefix == <<"E","r","r","o","r">>

\* round(x, 3) of a polarity given in ten-thousandths, in thousandths: the
\* nearest thousandth, a tie going to the even one.
RoundThousandths(p) ==
    LET q == p \div 10
        r == p % 10
    IN  IF r > 5 THEN q + 1
        ELSE IF r = 5 /\ q % 2 = 1 THEN q + 1
        ELSE q

\* polarity is what TextBlob(text).sentiment.polarity gives for the text, in
\* ten-thousandths; scored lists the texts handed to TextBlob.
analyze_sentiment(text, polarity) ==
    IF Falsy(text) \/ startswith(text, ErrorPrefix)
    THEN [value |-> 0, scored |-> <<>>]
    ELSE [value |-> RoundThousandths(polarity), scored |-> <<text>>]

-----------------------------------------------------------------------------
(* analyze_seo *)

\* The characters word.strip(".,!?;:()[]\"'") removes.
StripChars == {".", ",", "!", "?", ";", ":", "(", ")", "[", "]", "\"", "'"}

\* stopwords.words('english') of NLTK: the words of that list the texts of
\* this model can contain (the list itself is data of the library).
english_stopwords ==
    { <<"a">>, <<"i">>, <<"s">>, <<"t">>, <<"d">>, <<"m">>, <<"o">>, <<"y">>,
      <<"n","o">>, <<"n","o","t">>, <<"f","o","r">>, <<"o","u","t">>,
      <<"t","h","e">>, <<"a","n","d">>, <<"i","s">>, <<"o","f">>, <<"t","o">> }

\* collections.Counter over a list: each distinct element and its count.
Counter(ws) ==
    [w \in {ws[i] : i \in 1..Len(ws)} |-> Cardinality({i \in 1..Len(ws) : ws[i] = w})]

\* The percentage rounded up to the next hundredth.
CeilHundredths(count, word_count) ==
    LET n == 10000 * count
    IN  IF n % word_count = 0 THEN n \div word_count ELSE (n \div word_count) + 1

\* round((count / word_count) * 100, 2) in hundredths: the nearest hundredth,
\* a tie going to the even one.
RoundHundredths(count, word_count) ==
    LET n == 10000 * count
        q == n \div word_count
        r == n % word_count
    IN  IF 2 * r > word_count THEN q + 1
        ELSE IF 2 * r = word_count /\ q % 2 = 1 THEN q + 1
        ELSE q

\* The threshold of "if count > 2".
MinCount == 2

NotAvailable == [flesch_reading_ease |-> "N/A", flesch_kincaid_grade |-> "N/A"]

\* textstat's two scores are numbers computed by the library from the text.
Readability == [flesch_reading_ease |-> "number", flesch_kincaid_grade |-> "number"]

EmptyDensity == [w \in {} |-> 0]

KeepWord(word) == word # <<>> /\ word \notin english_stopwords

\* The density mapping with the threshold "count >= 2".
keyword_density_from_two(word_freq, word_count) ==
    [w \in {k \in DOMAIN word_freq : word_freq[k] >= MinCount}
        |-> RoundHundredths(word_freq[w], word_count)]

\* {word: round((count / word_count) * 100, 2) ... if count > 2}
keyword_density_of(word_freq, word_count) ==
    [w \in {k \in DOMAIN word_freq : word_freq[k] > MinCount}
        |-> RoundHundredths(word_freq[w], word_count)]

analyze_seo(text) ==
    IF Falsy(text) THEN [keyword_density |-> EmptyDensity, readability_scores |-> NotAvailable]
    ELSE LET words == split(text)
             word_count == Len(words)
         IN  IF word_count = 0
             THEN [keyword_density |-> EmptyDensity, readability_scores |-> NotAvailable]
             ELSE LET cleaned_words == [i \in 1..word_count |-> lower(strip(words[i], StripChars))]
                      filtered_words == SelectSeq(cleaned_words, KeepWord)
                      word_freq == Counter(filtered_words)
                  IN  [keyword_density |-> keyword_density_of(word_freq, word_count),
                       readability_scores |-> Readability]

-----------------------------------------------------------------------------
(* The texts analyze_seo is applied to. *)

RawWords == { <<"b">>, <<"B",".">>, <<"c">>, <<"a">> }

RECURSIVE WordLists(_)
WordLists(n) ==
    IF n = 0 THEN {<<>>}
    ELSE LET shorter == WordLists(n - 1)
         IN  shorter \cup {Append(ws, w) : ws \in {x \in shorter : Len(x) = n - 1}, w \in RawWords}

ScenarioText == <<"w","o","r","d"," ","w","o","r","d"," ","w","o","r","d"," ","t","e","s","t"," ","t","e","s","t">>

ThirteenWords == <<"b"," ","b"," ","b"," ","c"," ","c"," ","c"," ","e"," ","e"," ","e"," ","f"," ","f"," ","f"," ","f">>

BlankText == <<" ", "\n", " ">>

PaddedText == <<" ", "b", " ", " ", "b", "\t", "b", "\n">>

\* Tokens that are punctuation only, and punctuation on both sides of a token.
PunctText == <<".", " ", "b", " ", "(", "B", ")", " ", "?", "!", " ", "\"", "b", "\"", " ", "c">>

SeoTexts ==
    {join(<<" ">>, ws) : ws \in WordLists(MaxWords)}
        \cup {ScenarioText, ThirteenWords, BlankText, PaddedText, PunctText}

-----------------------------------------------------------------------------
(* The listing pages scrape_articles is applied to. *)

\* A character naming a position on the page.
Pos(i) == LowerAlphabet[i]

\* The text nodes of the title element at position i: padded with whitespace,
\* in several nodes at even positions, blank when the position is in blanks.
TitleStrings(i, blanks) ==
    IF i \in blanks
    THEN IF i % 2 = 0 THEN <<>> ELSE << <<" ", "\n">> >>
    ELSE IF i % 2 = 0 THEN << <<"T">>, <<" ">>, <<Pos(i), " ">> >>
    ELSE << <<" ", "T", Pos(i), "\n">> >>

\* The hrefs a link element can have, for the position named c: a path, an
\* absolute URL, no href, an empty one, a relative file name, a relative file
\* name that begins with "http", a URL without scheme, a fragment, a mailto.
HrefKinds(c) ==
    << <<"/", "s", c>>,
       <<"h","t","t","p","s",":","/","/","a","b","c","n","e","w","s",".","g","o",".","c","o","m","/","s", c>>,
       None,
       <<>>,
       <<"s", c, ".", "h", "t", "m", "l">>,
       <<"h","t","t","p","-","f","a","q","-", c, ".", "h", "t", "m", "l">>,
       <<"/", "/", "c", "d", "n", ".", "g", "o", "/", c>>,
       <<"#", c>>,
       <<"m","a","i","l","t","o",":", c, "@", "g", "o">> >>

NumHrefKinds == Len(HrefKinds("a"))

HrefAt(j, shift) == HrefKinds(Pos(j))[((j + shift) % NumHrefKinds) + 1]

\* The page with m title elements and n link elements under the selectors of
\* the Business category.
ListingPage(m, n, blanks, shift) ==
    (selectors.Business.title :> [i \in 1..m |-> Elem(TitleStrings(i, blanks), None)])
        @@ (selectors.Business.link :> [j \in 1..n |-> Elem(<<>>, HrefAt(j, shift))])

BlankSets(m) == {E \in SUBSET (1..m) : Cardinality(E) <= MaxBlank}

\* The shifts of the href kinds along the link elements: with these every
\* kind occurs among the first three links.
Shifts == {k \in 0..(NumHrefKinds - 1) : k % 3 = 0}

ListingInputs ==
    UNION { {[m |-> m, n |-> n, blanks |-> E, shift |-> k] :
                n \in 0..MaxLinkElems, E \in BlankSets(m), k \in Shifts} :
            m \in 0..MaxTitleElems }

-----------------------------------------------------------------------------
(* The article pages fetch_article_content is applied to. *)

ArticleTag(paragraphs) == [found |-> TRUE, paragraphs |-> paragraphs]
TitleTag(strings) == [found |-> TRUE, strings |-> strings]
MetaTag(content) == [found |-> TRUE, content |-> content]

\* A paragraph of one text node: the word "rise" 13 times, 64 characters.
LongParagraph == << join(<<" ">>, [i \in 1..13 |-> <<"r","i","s","e">>]) >>

\* A paragraph of 7 characters in two text nodes.
ShortParagraph == << <<" ", "S", "h", "a", "r", "e", " ">>, <<"i", "t">> >>

\* Paragraphs of exactly 50 and of 51 characters once stripped.
Paragraph50 == << <<" ">> \o [i \in 1..50 |-> "x"] \o <<"\n">> >>
Paragraph51 == << [i \in 1..51 |-> "y"] >>

ParagraphLists ==
    { <<>>, <<ShortParagraph>>, <<Paragraph50>>, <<LongParagraph>>,
      <<ShortParagraph, Paragraph51, Paragraph50, LongParagraph>> }

ArticleTags == {NoTag} \cup {ArticleTag(ps) : ps \in ParagraphLists}

TitleTags == {NoTag, TitleTag(<<>>), TitleTag(<< <<" ", "N", "e", "w", "s", "\n">> >>)}

MetaTags == {NoTag, MetaTag(None), MetaTag(<<>>), MetaTag(<<"a", "b", "c">>)}

ArticlePages ==
    [article : ArticleTags, paragraphs : ParagraphLists, title : TitleTags,
     description : MetaTags, keywords : MetaTags]

ArticleUrl == <<"h","t","t","p","s",":","/","/","a","b","c","n","e","w","s",".","g","o",".","c","o","m","/","s","1">>

-----------------------------------------------------------------------------
(* The pages and responses the loop of main meets. *)

\* The page of category c on which the title rule matches title_elems and the
\* link rule link_elems; where the two rules are the same selector they match
\* the same elements, title_elems.
PageFor(c, title_elems, link_elems) ==
    (selectors[c].title :> title_elems) @@ (selectors[c].link :> link_elems)

Titled(i) == << <<" ", "T", Pos(i), "\n">> >>

PathHref(i) == <<"/", "s", Pos(i)>>

\* No element matches.
EmptyListing(c) == PageFor(c, <<>>, <<>>)

\* Three title elements, the second blank and the third without href, and two
\* link elements.
ThreeTitlesTwoLinks(c) ==
    PageFor(c,
            <<Elem(Titled(1), PathHref(1)), Elem(<< <<" ">> >>, PathHref(2)), Elem(Titled(3), None)>>,
            <<Elem(<<>>, PathHref(1)), Elem(<<>>, PathHref(2))>>)

\* Eleven title elements, the tenth with a relative href and the others
\* without href, and ten link elements, the tenth with that href and the
\* others with an empty one.
ElevenTitles(c) ==
    PageFor(c,
            [i \in 1..11 |-> Elem(Titled(i), IF i = 10 THEN <<"s", "j">> ELSE None)],
            [i \in 1..10 |-> Elem(<<>>, IF i = 10 THEN <<"s", "j">> ELSE <<>>)])

ListingResponses(c) ==
    FailedResponses \cup {Ok(EmptyListing(c)), Ok(ThreeTitlesTwoLinks(c)), Ok(ElevenTitles(c))}

\* An article page with content, and one without any paragraph long enough.
GoodArticle ==
    [article |-> ArticleTag(<<ShortParagraph, LongParagraph>>), paragraphs |-> <<ShortParagraph>>,
     title |-> TitleTag(<< <<"N", "e", "w", "s">> >>), description |-> MetaTag(<<"a", "b", "c">>),
     keywords |-> NoTag]

EmptyArticle ==
    [article |-> NoTag, paragraphs |-> <<ShortParagraph>>, title |-> NoTag,
     description |-> NoTag, keywords |-> MetaTag(<<>>)]

ArticleResponses ==
    { Raise("Timeout", TimeoutMsg), Raise("HTTPError", Http500Msg),
      Raise("RecursionError", ParseMsg), Ok(GoodArticle), Ok(EmptyArticle) }

\* Values of TextBlob's polarity, in ten-thousandths.
Polarities == {-2000, 3125}

\* The bodies main can hand to TextBlob: those fetch_article_content returns
\* here that are neither empty nor begin with "Error".
ScorableBodies ==
    {NoUrlProvided, NoRelevantContent,
     fetch_article_content(ArticleUrl, Ok(GoodArticle)).value[1]}

-----------------------------------------------------------------------------
(* A single call of analyze_seo. *)

NoCall == [fn |-> "none"]
NotReturned == [done |-> FALSE]

IdleMain ==
    /\ pc = "idle"
    /\ catIdx = 0
    /\ articles = <<>>
    /\ artIdx = 0
    /\ data = <<>>
    /\ gets = <<>>
    /\ scored = <<>>
    /\ returned = <<>>
    /\ textblob = <<>>

mainVars == <<pc, catIdx, articles, artIdx, data, gets, scored, returned, textblob>>

SeoInit ==
    /\ IdleMain
    /\ call \in {[fn |-> "analyze_seo", text |-> t] : t \in SeoTexts}
    /\ ret = NotReturned

CallAnalyzeSeo ==
    /\ call.fn = "analyze_seo"
    /\ ret = NotReturned
    /\ ret' = [done |-> TRUE, value |-> analyze_seo(call.text)]
    /\ UNCHANGED <<call, mainVars>>

SeoNext == CallAnalyzeSeo

SeoSpec == SeoInit /\ [][SeoNext]_vars

-----------------------------------------------------------------------------
(* A single call of scrape_articles, as main calls it for Business. *)

ScrapeCall(response, input) ==
    [fn |-> "scrape_articles",
     url |-> BusinessUrl,
     title_selector |-> selectors.Business.title,
     link_selector |-> selectors.Business.link,
     base_url |-> base_url_of(BusinessUrl),
     response |-> response,
     input |-> input]

NoInput == [m |-> 0, n |-> 0, blanks |-> {}, shift |-> 0]

ScrapeInit ==
    /\ IdleMain
    /\ call \in {ScrapeCall(Ok(ListingPage(i.m, i.n, i.blanks, i.shift)), i) : i \in ListingInputs}
                    \cup {ScrapeCall(r, NoInput) : r \in FailedResponses}
    /\ ret = NotReturned

CallScrapeArticles ==
    /\ call.fn = "scrape_articles"
    /\ ret = NotReturned
    /\ LET result == scrape_articles(call.url, call.title_selector, call.link_selector,
                                     call.base_url, call.response)
       IN  /\ ret' = [done |-> TRUE, raised |-> result.raised, value |-> result.value]
           /\ gets' = gets \o result.requests
    /\ UNCHANGED <<call, pc, catIdx, articles, artIdx, data, scored, returned, textblob>>

ScrapeNext == CallScrapeArticles

ScrapeSpec == ScrapeInit /\ [][ScrapeNext]_vars

-----------------------------------------------------------------------------
(* A single call of fetch_article_content. *)

FetchInit ==
    /\ IdleMain
    /\ call \in [fn : {"fetch_article_content"},
                 url : {None, <<>>, ArticleUrl},
                 response : FailedResponses \cup {Ok(p) : p \in ArticlePages}]
    /\ ret = NotReturned

CallFetchArticleContent ==
    /\ call.fn = "fetch_article_content"
    /\ ret = NotReturned
    /\ LET result == fetch_article_content(call.url, call.response)
       IN  /\ ret' = [done |-> TRUE, raised |-> result.raised, value |-> result.value]
           /\ gets' = gets \o result.requests
    /\ UNCHANGED <<call, pc, catIdx, articles, artIdx, data, scored, returned, textblob>>

FetchNext == CallFetchArticleContent

FetchSpec == FetchInit /\ [][FetchNext]_vars

-----------------------------------------------------------------------------
(* main: the loop over the categories. *)

\* The dict appended to data.
record_of(category, title, link, fetched, sentiment, seo) ==
    [Category |-> category,
     Title |-> title,
     URL |-> link,
     Sentiment |-> sentiment,
     Meta_Title |-> fetched[2],
     Meta_Description |-> fetched[3],
     Meta_Keywords |-> fetched[4],
     Keyword_Density |-> seo.keyword_density,
     Flesch_Reading_Ease |-> seo.readability_scores.flesch_reading_ease,
     Flesch_Kincaid_Grade |-> seo.readability_scores.flesch_kincaid_grade,
     Content |-> Take(fetched[1], PreviewLen)]

\* A loop that appends no record for a fetch that failed.
data_append_unless_failed(d, record) ==
    IF startswith(record.Content, ErrorPrefix) THEN d ELSE Append(d, record)

\* data.append(record)
data_append(d, record) == Append(d, record)

\* Where the loop stands once the category at index c is finished.
after_category(c) == IF c = Len(Categories) THEN "done" ELSE "scrape"

Init ==
    /\ pc = "scrape"
    /\ catIdx = 1
    /\ articles = <<>>
    /\ artIdx = 1
    /\ data = <<>>
    /\ gets = <<>>
    /\ scored = <<>>
    /\ returned = <<>>
    /\ textblob \in [ScorableBodies -> Polarities]
    /\ call = NoCall
    /\ ret = NotReturned

\* One iteration of "for category, url in ...": up to the call of
\* scrape_articles and the start of the loop over its result.
ScrapeCategory ==
    /\ pc = "scrape"
    /\ \E response \in ListingResponses(Categories[catIdx]) :
          LET category == Categories[catIdx]
              url == CategoryUrl[category]
              base_url == base_url_of(url)
              result == scrape_articles(url, selectors[category].title,
                                        selectors[category].link, base_url, response)
          IN  /\ gets' = gets \o result.requests
              /\ IF result.raised
                 THEN /\ pc' = "raised"
                      /\ UNCHANGED <<catIdx, articles, artIdx, returned>>
                 ELSE /\ articles' = result.value
                      /\ returned' = Append(returned, result.value)
                      /\ artIdx' = 1
                      /\ IF result.value = <<>>
                         THEN catIdx' = catIdx + 1 /\ pc' = after_category(catIdx)
                         ELSE catIdx' = catIdx /\ pc' = "article"
    /\ UNCHANGED <<data, scored, textblob, call, ret>>

\* One iteration of "for title, link in articles".
ProcessArticle ==
    /\ pc = "article"
    /\ \E response \in ArticleResponses :
          LET title == articles[artIdx][1]
              link == articles[artIdx][2]
              fetched == fetch_article_content(link, response)
          IN  /\ gets' = gets \o fetched.requests
              /\ IF fetched.raised
                 THEN /\ pc' = "raised"
                      /\ UNCHANGED <<catIdx, artIdx, data, scored>>
                 ELSE LET content == fetched.value[1]
                          polarity == IF content \in DOMAIN textblob THEN textblob[content]
                                                                       ELSE 0
                          sentiment == analyze_sentiment(content, polarity)
                          seo == analyze_seo(content)
                      IN  /\ scored' = scored \o sentiment.scored
                          /\ data' = data_append(data,
                                        record_of(Categories[catIdx], title, link,
                                                  fetched.value, sentiment.value, seo))
                          /\ IF artIdx = Len(articles)
                             THEN /\ catIdx' = catIdx + 1
                                  /\ artIdx' = 1
                                  /\ pc' = after_category(catIdx)
                             ELSE /\ catIdx' = catIdx
                                  /\ artIdx' = artIdx + 1
                                  /\ pc' = "article"
    /\ UNCHANGED <<articles, returned, textblob, call, ret>>

Next == ScrapeCategory \/ ProcessArticle

Spec == Init /\ [][Next]_vars

-----------------------------------------------------------------------------
(* Properties of analyze_seo, checked under SeoSpec. *)

\* The whitespace-separated tokens of a text, as the index pairs <<i, j>> of
\* its maximal runs of non-whitespace characters.
TokenRuns(text) ==
    LET word(k) == text[k] \notin Whitespace
        starts == {i \in 1..Len(text) : word(i) /\ (i = 1 \/ ~word(i - 1))}
        ends   == {j \in 1..Len(text) : word(j) /\ (j = Len(text) \/ ~word(j + 1))}
    IN  {<<i, CHOOSE j \in ends : j >= i /\ \A k \in ends : k >= i => j <= k>> : i \in starts}

\* The normalized form of a token: punctuation stripped, lowercased.
Normalized(text, run) == lower(strip(SubSeq(text, run[1], run[2]), StripChars))

\* How often a normalized token occurs among the tokens of a text.
Frequency(text, w) == Cardinality({run \in TokenRuns(text) : Normalized(text, run) = w})

\* The keys the density mapping must have: non-empty, non-stopword, frequency > 2.
ExpectedKeys(text) ==
    {w \in {Normalized(text, run) : run \in TokenRuns(text)} :
        /\ w # <<>>
        /\ w \notin english_stopwords
        /\ Frequency(text, w) > 2}

\* v (hundredths) is 100 * f / n rounded to two decimals.
IsRounded(v, f, n) ==
    LET d == v * n - 10000 * f
    IN  /\ 2 * d <= n
        /\ 2 * d >= -n
        /\ (2 * d = n \/ 2 * d = -n) => v % 2 = 0

SeoReturned == call.fn = "analyze_seo" /\ ret.done

\* C6: for every text with word_count > 0 the keys of the keyword-density
\* mapping are exactly the normalized, non-empty, non-stopword tokens whose
\* frequency is greater than 2, each value is round(100 * frequency /
\* word_count, 2) over the raw word count, and "word word word test test"
\* yields {"word": 60.0}.
C6_DensityKeysAndValues ==
    (SeoReturned /\ TokenRuns(call.text) # {}) =>
        LET kd == ret.value.keyword_density
            n  == Cardinality(TokenRuns(call.text))
        IN  /\ DOMAIN kd = ExpectedKeys(call.text)
            /\ \A w \in DOMAIN kd : IsRounded(kd[w], Frequency(call.text, w), n)
            /\ call.text = ScenarioText => kd = (<<"w","o","r","d">> :> 6000)

\* C6 witness: a text of six words in which one token occurs three times and
\* is the only key, with density 50.0, and another occurs exactly twice.
C6_Witness ==
    /\ SeoReturned
    /\ Frequency(call.text, <<"b">>) = 3
    /\ Frequency(call.text, <<"c">>) = 2
    /\ Cardinality(TokenRuns(call.text)) = 6
    /\ DOMAIN ret.value.keyword_density = {<<"b">>}
    /\ ret.value.keyword_density[<<"b">>] = 5000

RECURSIVE SumOver(_, _)
SumOver(f, S) ==
    IF S = {} THEN 0
    ELSE LET x == CHOOSE y \in S : TRUE
         IN  f[x] + SumOver(f, S \ {x})

\* The sum of the density values, in hundredths.
DensitySum == SumOver(ret.value.keyword_density, DOMAIN ret.value.keyword_density)

\* The number of token occurrences whose token has frequency > 2.
KeptOccurrences(text) ==
    Cardinality({run \in TokenRuns(text) : Normalized(text, run) \in ExpectedKeys(text)})

\* C7 as stated: the sum of the (rounded) density values is at most
\* 100 * (occurrences of tokens with frequency > 2) / word_count, and at most 100.
C7_SumBoundedUnrounded ==
    (SeoReturned /\ TokenRuns(call.text) # {}) =>
        /\ DensitySum * Cardinality(TokenRuns(call.text)) <= 10000 * KeptOccurrences(call.text)
        /\ DensitySum <= 10000

\* C7 amended: the sum of the density values exceeds
\* 100 * (occurrences of tokens with frequency > 2) / word_count by at most
\* 0.005 per key, the rounding of each value; and each single value is at most 100.
C7_SumBoundedUpToRounding ==
    (SeoReturned /\ TokenRuns(call.text) # {}) =>
        LET kd == ret.value.keyword_density
            n  == Cardinality(TokenRuns(call.text))
            k  == Cardinality(DOMAIN kd)
        IN  /\ 2 * DensitySum * n <= 20000 * KeptOccurrences(call.text) + k * n
            /\ \A w \in DOMAIN kd : kd[w] <= 10000

\* C7 witness: several keys, one of them rounded up (3 of 13 words is 23.08).
C7_Witness ==
    /\ SeoReturned
    /\ Cardinality(DOMAIN ret.value.keyword_density) >= 2
    /\ \E w \in DOMAIN ret.value.keyword_density :
          ret.value.keyword_density[w] * Cardinality(TokenRuns(call.text))
              > 10000 * Frequency(call.text, w)

-----------------------------------------------------------------------------
(* Properties of scrape_articles and clean_url, checked under ScrapeSpec. *)

ScrapedPage == call.fn = "scrape_articles" /\ ret.done /\ call.response.kind = "ok"

\* The text t_i the title rule matches at position i, trimmed.
TitleAt(i) == get_text_strip(call.response.page[call.title_selector][i].strings)

\* The link paired with position i: the resolved href l_i, absent beyond the
\* last link.
LinkAt(i) ==
    IF i <= Len(call.response.page[call.link_selector])
    THEN clean_url(call.base_url, call.response.page[call.link_selector][i].href)
    ELSE None

\* The positions that give a pair: the first 10 titles that are not empty.
KeptPositions ==
    {i \in 1..Len(call.response.page[call.title_selector]) :
        i <= 10 /\ TitleAt(i) # <<>>}

\* C5: scrape_articles returns, in order, the pair (t_i, resolved l_i) for
\* each i <= min(m, 10) with t_i non-empty, the link absent when i > n; no
\* title is lost when there are fewer links (3 titles and 2 links give 3
\* pairs, the third without URL), and a dropped empty title does not shift
\* the links of the others.
C5_PositionalPairs ==
    ScrapedPage =>
        /\ ~ret.raised
        /\ Len(ret.value) = Cardinality(KeptPositions)
        /\ \A i \in KeptPositions :
              ret.value[Cardinality({j \in KeptPositions : j <= i})] = <<TitleAt(i), LinkAt(i)>>
        /\ (call.input.m = 3 /\ call.input.n = 2 /\ call.input.blanks = {}) =>
              Len(ret.value) = 3 /\ ret.value[3][2] = None

\* C5 witness: 4 titles, the first blank, and 2 links: 3 pairs, the first
\* with the second link, the others without URL.
C5_Witness ==
    /\ ScrapedPage
    /\ call.input.m = 4 /\ call.input.n = 2 /\ call.input.blanks = {1}
    /\ Len(ret.value) = 3
    /\ ret.value[1] = <<TitleAt(2), LinkAt(2)>>
    /\ LinkAt(2) # None
    /\ ret.value[2][2] = None /\ ret.value[3][2] = None

\* An absolute URL has a scheme.
IsAbsoluteUrl(url) == HasScheme(url)

\* C9 as stated: every pair scrape_articles returns has a url that is absent
\* or absolute, and clean_url returns a href unchanged only when the href is
\* absolute.
C9_AbsentOrAbsolute ==
    ScrapedPage =>
        /\ \A k \in 1..Len(ret.value) :
              ret.value[k][2] = None \/ IsAbsoluteUrl(ret.value[k][2])
        /\ \A j \in 1..Len(call.response.page[call.link_selector]) :
              LET href == call.response.page[call.link_selector][j].href
              IN  (~Falsy(href) /\ clean_url(call.base_url, href) = href) => IsAbsoluteUrl(href)

-----------------------------------------------------------------------------
(* Properties of fetch_article_content, checked under FetchSpec. *)

Fetched == call.fn = "fetch_article_content" /\ ret.done

NoMetadata(value) == value[2] = None /\ value[3] = None /\ value[4] = None

\* C8: for an absent (None or empty) URL fetch_article_content returns
\* ("No URL provided.", None, None, None) and issues no request; for a request
\* that times out ("Error: Request timed out.", None, None, None); for any
\* other request or parse error a body beginning with "Error" and None for the
\* three metadata fields; on success the three metadata fields are not None.
\* No exception leaves the function.
C8_FailureOutcomes ==
    Fetched =>
        /\ ~ret.raised
        /\ Falsy(call.url) =>
              ret.value = <<NoUrlProvided, None, None, None>> /\ gets = <<>>
        /\ (~Falsy(call.url) /\ call.response.kind = "raise") =>
              /\ gets = <<Get("article", call.url)>>
              /\ NoMetadata(ret.value)
              /\ IF call.response.exc = "Timeout"
                 THEN ret.value[1] = TimedOutBody
                 ELSE startswith(ret.value[1], ErrorPrefix) /\ ret.value[1] # TimedOutBody
        /\ (~Falsy(call.url) /\ call.response.kind = "ok") =>
              /\ gets = <<Get("article", call.url)>>
              /\ ret.value[2] # None /\ ret.value[3] # None /\ ret.value[4] # None

\* C8 witness: a request that timed out, returned as the time-out sentinel.
C8_Witness ==
    /\ Fetched
    /\ ~Falsy(call.url)
    /\ call.response.kind = "raise" /\ call.response.exc = "Timeout"
    /\ ret.value = <<TimedOutBody, None, None, None>>

-----------------------------------------------------------------------------
(* Properties of the loop of main, checked under Spec. *)

\* C1 as stated: no exception raised in scrape_articles or in
\* fetch_article_content propagates to the loop of main, whatever the fetch
\* and parse outcomes, so the run reaches the end of the category loop.
C1_NoExceptionReachesMain == pc # "raised"

\* C2: scrape_articles returns at most 10 pairs, each with a non-empty title,
\* and every record of main has a non-empty Title.
C2_AtMostTenTitled ==
    /\ \A c \in 1..Len(returned) :
          /\ Len(returned[c]) <= 10
          /\ \A k \in 1..Len(returned[c]) : ~Falsy(returned[c][k][1])
    /\ \A i \in 1..Len(data) : ~Falsy(data[i].Title)

\* C2 witness: a listing with 11 title matches gave 10 pairs, a listing whose
\* second of three titles is blank gave the first and the third, and their
\* records are in data.
C2_Witness ==
    /\ \E c \in 1..Len(returned) : Len(returned[c]) = 10
    /\ \E c \in 1..Len(returned) :
          /\ Len(returned[c]) = 2
          /\ returned[c][1][1] = <<"T", Pos(1)>>
          /\ returned[c][2][1] = <<"T", Pos(3)>>
    /\ Len(data) >= 12

\* The (category, title, url) rows that the lists returned for the first c
\* categories give, category by category, each list in its order.
RECURSIVE ExpectedRows(_)
ExpectedRows(c) ==
    IF c = 0 THEN <<>>
    ELSE ExpectedRows(c - 1)
            \o [k \in 1..Len(returned[c]) |->
                   <<Categories[c], returned[c][k][1], returned[c][k][2]>>]

\* C3: once the loop of main has finished, data holds exactly one record per
\* pair returned by scrape_articles, whatever the outcome of its fetch,
\* category-major in configuration order and in the order of the pairs; a
\* category without pairs contributes nothing.
C3_OneRecordPerRef ==
    pc = "done" =>
        /\ Len(returned) = Len(Categories)
        /\ [i \in 1..Len(data) |-> <<data[i].Category, data[i].Title, data[i].URL>>]
              = ExpectedRows(Len(Categories))

\* C3 witness: the loop finished, the second category gave no pair, the first
\* and the third did, and data holds records of a fetch that timed out, of one
\* that failed otherwise and of one without URL.
C3_Witness ==
    /\ pc = "done"
    /\ returned[1] # <<>> /\ returned[2] = <<>> /\ returned[3] # <<>>
    /\ \E i \in 1..Len(data) : data[i].Content = TimedOutBody
    /\ \E i \in 1..Len(data) : startswith(data[i].Content, ErrorFetchingPrefix)
    /\ \E i \in 1..Len(data) : data[i].Content = NoUrlProvided

\* C4 as stated: every record whose Content begins with "Error" or is "No
\* relevant content found." has Sentiment 0.0, got without the sentiment
\* scorer, and an empty Keyword Density.
C4_DegradedBodiesAnalyzedSafely ==
    \A i \in 1..Len(data) :
        (startswith(data[i].Content, ErrorPrefix) \/ data[i].Content = NoRelevantContent) =>
            /\ data[i].Sentiment = 0
            /\ DOMAIN data[i].Keyword_Density = {}
            /\ \A j \in 1..Len(scored) : Take(scored[j], PreviewLen) # data[i].Content

\* The number of GETs issued for the listing of the category at index c.
ListingGets(c) ==
    Cardinality({i \in 1..Len(gets) : gets[i] = Get("listing", CategoryUrl[Categories[c]])})

\* C10 as stated: in one run of the loop, whatever the outcomes, exactly one
\* GET is issued per configured category listing and one GET per record with
\* a URL, none for a record without.
C10_ExactlyOneGetPerListing ==
    pc \in {"done", "raised"} =>
        /\ \A c \in 1..Len(Categories) : ListingGets(c) = 1
        /\ Cardinality({i \in 1..Len(gets) : gets[i].kind = "article"})
              = Cardinality({i \in 1..Len(data) : ~Falsy(data[i].URL)})

=============================================================================
